---- MODULE Spec2Model ----
(***************************************************************************)
(* TLCA_ACR_Cache of cache_replacement.py: a bounded key-value cache that  *)
(* evicts the entry with the lowest weighted score.                        *)
(*                                                                         *)
(* Numbers.  Python floats are modelled as exact rationals.  One clock     *)
(* tick is 1e-5 s, so that "recency + 1e-5" is (recency + 1) ticks.  The   *)
(* weights alpha .. epsilon of a cache are integers over the cache's own   *)
(* denominator wden (alpha = weights.alpha / wden), the values returned by *)
(* the callbacks are integers over FnUnit, and a score is the pair         *)
(* [num, den] standing for num / (den * wden * FnUnit).                    *)
(* An optional argument is a tuple: <<>> is None, <<12>> is t = 12,        *)
(* <<0, 0>> is loc = (0.0, 0.0).                                           *)
(***************************************************************************)
EXTENDS Integers, Sequences, FiniteSets, TLC

VARIABLES capacity, weights, fns, cache, access_freq, last_access, now, touches, last

vars == <<capacity, weights, fns, cache, access_freq, last_access, now, touches, last>>

\* ---------------------------------------------------------------- bounds
MaxCapacity == 1
MaxClock == 2
MaxFreq == 3

\* ------------------------------------------------------------- constants
\* callbacks return multiples of 1/FnUnit (0.1, 0.5, 2.0, 5.0 in run_tests)
FnUnit == 10
\* 1 / 1e-5: the stabiliser added to recency, i.e. clock ticks per second
InvEps == 100000
\* 1 / 1e-5: the tie tolerance of evict
InvTol == 100000

Keys == {"A", "B", "C"}
\* the keys of the second and third test of run_tests
TestKeys == {"X", "Y", "Z", "W"}
AllKeys == Keys \cup TestKeys
Values == {"v1", "v2"}
NoKey == "None"
None == <<>>

\* the t and loc arguments the operations are driven with
TArgs == {None, <<0>>, <<12>>}
LocArgs == {None, <<99, 99>>}

\* time.localtime().tm_hour at clock value c: the run starts shortly before noon
HourFlip == 1
HourOf(c) == IF c < HourFlip THEN 11 ELSE 12

\* ------------------------------------------------------------ the weights
DefaultWeights == [wden |-> 1, alpha |-> 1, beta |-> 1, gamma |-> 1, delta |-> 1, epsilon |-> 1]
Test1Weights == [wden |-> 1, alpha |-> 2, beta |-> 3, gamma |-> 1, delta |-> 1, epsilon |-> 1]
Test2Weights == [wden |-> 1, alpha |-> 1, beta |-> 0, gamma |-> 1, delta |-> 1, epsilon |-> 1]
\* a cache built with alpha = 0
ZeroAlphaWeights == [wden |-> 1, alpha |-> 0, beta |-> 1, gamma |-> 1, delta |-> 1, epsilon |-> 1]
\* alpha = 1e-6, beta = 5e-10, gamma = delta = epsilon = 1e-6
FineWeights == [wden |-> 2000000000, alpha |-> 2000, beta |-> 1, gamma |-> 2000,
                delta |-> 2000, epsilon |-> 2000]

\* ---------------------------------------------------------- the callbacks
ContextFn(name) == FnUnit

TimeFn(name, t) ==
    CASE name = "const" -> FnUnit
      [] name = "fav12" -> IF t = 12 THEN 2 * FnUnit ELSE 1
      [] name = "fav8to10" -> IF 8 <= t /\ t <= 10 THEN 2 * FnUnit ELSE 5

LocFn(name, xy) ==
    CASE name = "const" -> FnUnit
      [] name = "fav00" -> IF xy = <<0, 0>> THEN 5 * FnUnit ELSE 1
      [] name = "favSF" -> IF xy = <<3777, -12242>> THEN 2 * FnUnit ELSE 5

DefaultFns == [context_fn |-> "const", time_fn |-> "const", loc_fn |-> "const"]
\* the callbacks of the first test and of the second and third test of run_tests
Test1Fns == [context_fn |-> "const", time_fn |-> "fav8to10", loc_fn |-> "favSF"]
Test2Fns == [context_fn |-> "const", time_fn |-> "fav12", loc_fn |-> "fav00"]

\* ------------------------------------------------------------- the cache
\* self.cache is a dict: a sequence of [key, value] in insertion order.  The
\* time stored next to the value is read by no method and is not kept.
CacheKeys(c) == {c[i].key : i \in DOMAIN c}

IndexOf(c, k) == CHOOSE i \in DOMAIN c : c[i].key = k

Without(c, k) == SelectSeq(c, LAMBDA e : e.key # k)

\* d without the key k (dict.pop(k, None))
Pop(d, k) == [x \in DOMAIN d \ {k} |-> d[x]]

\* d with d[k] = v (insert or overwrite)
Store(d, k, v) == [x \in DOMAIN d \cup {k} |-> IF x = k THEN v ELSE d[x]]

\* defaultdict(int) lookup
FreqOf(f, k) == IF k \in DOMAIN f THEN f[k] ELSE 0

\* --------------------------------------------------------- compute_score
\* t or time.localtime().tm_hour: None and 0 are both falsy
TimeArg(t, hour) == IF t = None \/ t[1] = 0 THEN hour ELSE t[1]

\* loc or (0.0, 0.0)
LocArg(loc) == IF loc = None THEN <<0, 0>> ELSE loc

\* mutant: the time weight is multiplied by the recency instead of being added
\* on its own
ComputeScoreTimeByRecency(freqs, las, w, f, key, t, loc, c, hour) ==
    LET freq == FreqOf(freqs, key)
        recency == c - las[key]
        context_val == ContextFn(f.context_fn)
        time_weight == TimeFn(f.time_fn, TimeArg(t, hour))
        loc_weight == LocFn(f.loc_fn, LocArg(loc))
        linear == w.alpha * freq * FnUnit + w.gamma * context_val
                  + w.delta * time_weight * recency + w.epsilon * loc_weight
    IN [num |-> linear * (recency + 1) + w.beta * FnUnit * InvEps, den |-> recency + 1]

\* mutant: the frequency term is left out of the sum
ComputeScoreNoFreq(freqs, las, w, f, key, t, loc, c, hour) ==
    LET recency == c - las[key]
        context_val == ContextFn(f.context_fn)
        time_weight == TimeFn(f.time_fn, TimeArg(t, hour))
        loc_weight == LocFn(f.loc_fn, LocArg(loc))
        linear == w.gamma * context_val + w.delta * time_weight + w.epsilon * loc_weight
    IN [num |-> linear * (recency + 1) + w.beta * FnUnit * InvEps, den |-> recency + 1]

\* the score of a key whose last_access entry exists, computed at clock value c
ComputeScore(freqs, las, w, f, key, t, loc, c, hour) ==
    LET freq == FreqOf(freqs, key)
        recency == c - las[key]
        context_val == ContextFn(f.context_fn)
        time_weight == TimeFn(f.time_fn, TimeArg(t, hour))
        loc_weight == LocFn(f.loc_fn, LocArg(loc))
        linear == w.alpha * freq * FnUnit + w.gamma * context_val
                  + w.delta * time_weight + w.epsilon * loc_weight
    IN [num |-> linear * (recency + 1) + w.beta * FnUnit * InvEps, den |-> recency + 1]

\* mutant: the comparison of the scan is turned round
LessReversed(s1, s2) == s1.num * s2.den > s2.num * s1.den

\* score < min_score
Less(s1, s2) == s1.num * s2.den < s2.num * s1.den

AbsDiff(s1, s2) ==
    LET x == s1.num * s2.den - s2.num * s1.den IN IF x < 0 THEN -x ELSE x

\* mutant: the scan keeps no ties (the elif branch is missing)
NearNever(s1, s2, wden) == FALSE

\* abs(score - min_score) < 1e-5
Near(s1, s2, wden) ==
    IF wden % InvTol = 0
    THEN AbsDiff(s1, s2) < (wden \div InvTol) * FnUnit * s1.den * s2.den
    ELSE AbsDiff(s1, s2) <= (wden * FnUnit * s1.den * s2.den - 1) \div InvTol

\* ----------------------------------------------------------------- evict
\* mutant: a lower score does not reset tied_keys, the key is appended to it
ScanStepNoReset(acc, key, score, wden) ==
    IF acc.min = <<>> \/ Less(score, acc.min[1])
    THEN [min |-> <<score>>, tied |-> Append(acc.tied, key)]
    ELSE IF Near(score, acc.min[1], wden)
         THEN [min |-> acc.min, tied |-> Append(acc.tied, key)]
         ELSE acc

\* mutant: min_score starts at 0.0, which no score is below or near
ScanStepFromZero(acc, key, score, wden) == acc

\* one iteration of the loop of evict; acc.min = <<>> is float('inf')
ScanStep(acc, key, score, wden) ==
    IF acc.min = <<>> \/ Less(score, acc.min[1])
    THEN [min |-> <<score>>, tied |-> <<key>>]
    ELSE IF Near(score, acc.min[1], wden)
         THEN [min |-> acc.min, tied |-> Append(acc.tied, key)]
         ELSE acc

\* the scores evict computes: entry i is scored at clock value reads[i]
ScanScores(c, freqs, las, w, f, t, loc, reads) ==
    [i \in DOMAIN c |->
        ComputeScore(freqs, las, w, f, c[i].key, t, loc, reads[i], HourOf(reads[i]))]

RECURSIVE ScanFrom(_, _, _, _, _)
ScanFrom(c, scores, wden, i, acc) ==
    IF i > Len(c) THEN acc
    ELSE ScanFrom(c, scores, wden, i + 1, ScanStep(acc, c[i].key, scores[i], wden))

TiedKeys(c, scores, wden) ==
    ScanFrom(c, scores, wden, 1, [min |-> <<>>, tied |-> <<>>]).tied

\* mutant: the tie is broken towards the least recently accessed key
MinByLastAccess(tied, las) ==
    LET first == CHOOSE i \in DOMAIN tied :
                     /\ \A j \in DOMAIN tied : las[tied[j]] >= las[tied[i]]
                     /\ \A j \in 1..(i - 1) : las[tied[j]] > las[tied[i]]
    IN tied[first]

\* max(tied_keys, key=lambda k: self.last_access[k]): the first maximal element
MaxByLastAccess(tied, las) ==
    LET first == CHOOSE i \in DOMAIN tied :
                     /\ \A j \in DOMAIN tied : las[tied[j]] <= las[tied[i]]
                     /\ \A j \in 1..(i - 1) : las[tied[j]] < las[tied[i]]
    IN tied[first]

\* the key evict removes, NoKey when tied_keys is empty
KeyToEvict(c, freqs, las, w, f, t, loc, reads) ==
    LET tied == TiedKeys(c, ScanScores(c, freqs, las, w, f, t, loc, reads), w.wden)
    IN IF tied = <<>> THEN NoKey ELSE MaxByLastAccess(tied, las)

\* ------------------------------------------------------------- the clock
\* n successive values of time.time(): the first is any time from now on, and
\* within one operation the clock advances by at most a tick between reads
RECURSIVE ClockReads(_)
ClockReads(n) ==
    IF n = 0 THEN {<<>>}
    ELSE IF n = 1 THEN {<<c>> : c \in now..MaxClock}
    ELSE UNION {{Append(r, c) : c \in {r[n - 1], r[n - 1] + 1} \cap (now..MaxClock)} :
                   r \in ClockReads(n - 1)}

LastRead(r) == IF Len(r) = 0 THEN now ELSE r[Len(r)]

\* the readings of a put that scans n entries: the n readings of the scan and
\* the reading stored in last_access (line 84); the reading taken in between
\* for the stored tuple (line 82) is kept nowhere
PutReads(n) == {[scan |-> SubSeq(r, 1, n), stamp |-> r[n + 2]] : r \in ClockReads(n + 2)}

\* ---------------------------------------------------------- construction
EmptyMap == [k \in {} |-> 0]

\* capacity of the caches run_tests constructs
TestCapacity == 2

Init ==
    /\ \/ capacity \in 0..MaxCapacity /\ weights = DefaultWeights
       \/ capacity = TestCapacity /\ weights \in {Test1Weights, Test2Weights, FineWeights}
    /\ fns = DefaultFns
    /\ cache = <<>>
    /\ access_freq = EmptyMap
    /\ last_access = EmptyMap
    /\ now = 0
    /\ touches = [k \in AllKeys |-> 0]
    /\ last = [op |-> "init"]

\* ------------------------------------------------- set_context_functions
\* a callback argument is None (falsy: keep the current one) or a function
SetContextFunctions(context_fn, time_fn, loc_fn) ==
    /\ fns' = [context_fn |-> IF context_fn # None THEN context_fn[1] ELSE fns.context_fn,
               time_fn |-> IF time_fn # None THEN time_fn[1] ELSE fns.time_fn,
               loc_fn |-> IF loc_fn # None THEN loc_fn[1] ELSE fns.loc_fn]
    /\ last' = [op |-> "set_context_functions"]
    /\ UNCHANGED <<capacity, weights, cache, access_freq, last_access, now, touches>>

\* ------------------------------------------------------------------- get
ValueOf(c, key) == c[IndexOf(c, key)].value

\* mutant: get returns the value without refreshing last_access
GetHitStale(key) ==
    /\ access_freq[key] < MaxFreq
    /\ \E r \in ClockReads(1) :
          /\ access_freq' = Store(access_freq, key, FreqOf(access_freq, key) + 1)
          /\ now' = r[1]
    /\ touches' = [touches EXCEPT ![key] = @ + 1]
    /\ last' = [op |-> "get", key |-> key, ret |-> ValueOf(cache, key)]
    /\ UNCHANGED <<capacity, weights, fns, cache, last_access>>

\* key in self.cache: count the access, refresh the time, return the value
GetHit(key) ==
    /\ access_freq[key] < MaxFreq
    /\ \E r \in ClockReads(1) :
          /\ access_freq' = Store(access_freq, key, FreqOf(access_freq, key) + 1)
          /\ last_access' = Store(last_access, key, r[1])
          /\ now' = r[1]
    /\ touches' = [touches EXCEPT ![key] = @ + 1]
    /\ last' = [op |-> "get", key |-> key, ret |-> ValueOf(cache, key)]
    /\ UNCHANGED <<capacity, weights, fns, cache>>

\* mutant: get counts the access before it looks the key up, and the
\* defaultdict creates the entry
GetMissCounted(key) ==
    /\ FreqOf(access_freq, key) < MaxFreq
    /\ access_freq' = Store(access_freq, key, FreqOf(access_freq, key) + 1)
    /\ last' = [op |-> "get", key |-> key, ret |-> NoKey]
    /\ UNCHANGED <<capacity, weights, fns, cache, last_access, now, touches>>

\* return None
GetMiss(key) ==
    /\ last' = [op |-> "get", key |-> key, ret |-> NoKey]
    /\ UNCHANGED <<capacity, weights, fns, cache, access_freq, last_access, now, touches>>

\* t and loc are accepted and not used
Get(key, t, loc) == IF key \in CacheKeys(cache) THEN GetHit(key) ELSE GetMiss(key)

\* ----------------------------------------------------------------- evict
\* mutant: evict empties the cache instead of deleting the victim
CacheAfterEvictClear(c, victim) == IF victim = NoKey THEN c ELSE <<>>

\* mutant: evict leaves the victim's frequency behind
FreqAfterEvictKept(freqs, victim) == freqs

\* mutant: evict leaves the victim's last access time behind
LastAccessAfterEvictKept(las, victim) == las

\* the three maps after evict has removed victim (nothing when tied_keys is empty)
CacheAfterEvict(c, victim) == IF victim = NoKey THEN c ELSE Without(c, victim)

FreqAfterEvict(freqs, victim) == IF victim = NoKey THEN freqs ELSE Pop(freqs, victim)

LastAccessAfterEvict(las, victim) == IF victim = NoKey THEN las ELSE Pop(las, victim)

Evict(t, loc) ==
    \E r \in ClockReads(Len(cache)) :
        \E victim \in {KeyToEvict(cache, access_freq, last_access, weights, fns, t, loc, r)} :
           /\ cache' = CacheAfterEvict(cache, victim)
           /\ access_freq' = FreqAfterEvict(access_freq, victim)
           /\ last_access' = LastAccessAfterEvict(last_access, victim)
           /\ now' = LastRead(r)
           /\ touches' = [k \in AllKeys |-> IF k = victim THEN 0 ELSE touches[k]]
           /\ last' = [op |-> "evict", victim |-> victim]
           /\ UNCHANGED <<capacity, weights, fns>>

\* ------------------------------------------------------------------- put
\* mutant: the capacity test is off by one
NeedsEvictOverCapacity(c, cap, key) == key \notin CacheKeys(c) /\ Len(c) > cap

\* mutant: the capacity test forgets that the key may be present
NeedsEvictWhenFull(c, cap, key) == Len(c) >= cap

\* key not in self.cache and len(self.cache) >= self.capacity
NeedsEvict(c, cap, key) == key \notin CacheKeys(c) /\ Len(c) >= cap

\* mutant: the value of a present key is kept (setdefault instead of assignment)
CacheStoreKeep(c, key, value) ==
    IF key \in CacheKeys(c) THEN c ELSE Append(c, [key |-> key, value |-> value])

\* self.cache[key] = (value, time): an existing key keeps its place in the dict
CacheStore(c, key, value) ==
    IF key \in CacheKeys(c)
    THEN [i \in DOMAIN c |-> IF c[i].key = key THEN [key |-> key, value |-> value] ELSE c[i]]
    ELSE Append(c, [key |-> key, value |-> value])

Put(key, value, t, loc) ==
    LET evicts == NeedsEvict(cache, capacity, key)
        n == IF evicts THEN Len(cache) ELSE 0
    IN /\ FreqOf(access_freq, key) < MaxFreq
       /\ \E r \in PutReads(n) :
             \E victim \in {IF evicts
                             THEN KeyToEvict(cache, access_freq, last_access, weights, fns,
                                             t, loc, r.scan)
                             ELSE NoKey} :
                /\ cache' = CacheStore(CacheAfterEvict(cache, victim), key, value)
                /\ access_freq' = Store(FreqAfterEvict(access_freq, victim), key,
                                        FreqOf(FreqAfterEvict(access_freq, victim), key) + 1)
                /\ last_access' = Store(LastAccessAfterEvict(last_access, victim), key, r.stamp)
                /\ now' = r.stamp
                /\ touches' = [k \in AllKeys |-> IF k = key THEN touches[k] + 1
                                              ELSE IF k = victim THEN 0 ELSE touches[k]]
                /\ last' = [op |-> "put", key |-> key, value |-> value,
                            evict |-> evicts, victim |-> victim]
       /\ UNCHANGED <<capacity, weights, fns>>

\* ------------------------------------------- compute_score, called directly
ComputeScoreCall(key, t, loc) ==
    \E r \in ClockReads(1) : \E h \in {HourOf(r[1])} :
        /\ access_freq' = Store(access_freq, key, FreqOf(access_freq, key))
        /\ now' = r[1]
        /\ last' = IF key \in DOMAIN last_access
                   THEN [op |-> "compute_score", key |-> key, t |-> t, loc |-> loc,
                         raised |-> NoKey,
                         time_arg |-> TimeArg(t, h), loc_arg |-> LocArg(loc),
                         ret |-> ComputeScore(access_freq, last_access, weights, fns,
                                              key, t, loc, r[1], h)]
                   ELSE [op |-> "compute_score", key |-> key, t |-> t, loc |-> loc,
                         raised |-> "KeyError"]
        /\ UNCHANGED <<capacity, weights, fns, cache, last_access, touches>>

\* ------------------------------------------------------- specifications
\* the callbacks set_context_functions is driven with
FnArgs == {<<None, <<"fav12">>, <<"fav00">>>>}

\* the (t, loc) put and evict are driven with; they reach only the scan of
\* evict, an operation that does not scan ignores them
ScanArgs(scans) ==
    IF scans THEN {<<None, None>>, <<<<12>>, <<99, 99>>>>} ELSE {<<None, None>>}

\* the cache operations under the callbacks the constructor installs
Next ==
    \/ \E k \in Keys : Get(k, None, None)
    \/ \E k \in Keys, v \in Values :
          \E a \in ScanArgs(NeedsEvict(cache, capacity, k)) : Put(k, v, a[1], a[2])
    \/ \E a \in ScanArgs(cache # <<>>) : Evict(a[1], a[2])

Spec == Init /\ [][Next]_vars

\* the callbacks replaced and compute_score called directly
NextCS ==
    \/ \E a \in FnArgs : SetContextFunctions(a[1], a[2], a[3])
    \/ \E k \in Keys : Get(k, None, None)
    \/ \E k \in Keys : Put(k, "v1", None, None)
    \/ \E k \in Keys, t \in TArgs, loc \in LocArgs : ComputeScoreCall(k, t, loc)

SpecCS == Init /\ [][NextCS]_vars

\* ---------------------------------------------- run_tests, the first test
\* (37.77, -122.42) and (40.71, -74.00) in hundredths
LocSF == <<3777, -12242>>
LocNY == <<4071, -7400>>

\* the cache of the first test, before its callbacks are set
InitTest1 ==
    /\ capacity = TestCapacity /\ weights = Test1Weights
    /\ fns = DefaultFns
    /\ cache = <<>>
    /\ access_freq = EmptyMap
    /\ last_access = EmptyMap
    /\ now = 0
    /\ touches = [k \in AllKeys |-> 0]
    /\ last = [op |-> "init"]

\* the calls of the first test in their order, last being the call before;
\* the sleeps are any advance of the clock, none included, and the test is
\* also run without its set_context_functions and without the t and loc of
\* its last put
NextTest1 ==
    \/ /\ last.op = "init"
       /\ SetContextFunctions(<<"const">>, <<"fav8to10">>, <<"favSF">>)
    \/ /\ last.op \in {"init", "set_context_functions"}
       /\ \E v \in Values : Put("A", v, <<9>>, LocSF)
    \/ /\ last.op = "put" /\ last.key = "A"
       /\ \E v \in Values : Put("B", v, <<22>>, LocNY)
    \/ /\ \/ last.op = "put" /\ last.key = "B"
          \/ last.op = "get" /\ access_freq["A"] = 2
       /\ Get("A", <<9>>, LocSF)
    \/ /\ last.op = "get" /\ access_freq["A"] = 3
       /\ \E v \in Values, a \in {<<None, None>>, <<<<10>>, LocSF>>} : Put("C", v, a[1], a[2])

SpecTest1 == InitTest1 /\ [][NextTest1]_vars

\* ------------------------------- run_tests, the second and the third test
\* these tests sleep between their four puts; their clock starts before 0 so
\* that four distinct readings fit below MaxClock
TestStart == 0 - MaxClock

InitTest2 ==
    /\ capacity = TestCapacity /\ weights = Test2Weights
    /\ fns = DefaultFns
    /\ cache = <<>>
    /\ access_freq = EmptyMap
    /\ last_access = EmptyMap
    /\ now = TestStart
    /\ touches = [k \in AllKeys |-> 0]
    /\ last = [op |-> "init"]

\* time.sleep(0.05) after the put of a key: every later reading of the clock
\* is later than every reading of that put
Sleep ==
    /\ last.op = "put"
    /\ \E c \in (now + 1)..MaxClock : now' = c
    /\ last' = [op |-> "sleep", key |-> last.key]
    /\ UNCHANGED <<capacity, weights, fns, cache, access_freq, last_access, touches>>

\* the calls of the third test in their order (the second test is its first
\* three puts), last being the call before; the test is also run without its
\* set_context_functions
NextTest2 ==
    \/ /\ last.op = "init"
       /\ SetContextFunctions(<<"const">>, <<"fav12">>, <<"fav00">>)
    \/ /\ last.op \in {"init", "set_context_functions"}
       /\ \E v \in Values : Put("X", v, <<12>>, <<0, 0>>)
    \/ /\ last.op = "put" /\ last.key \in {"X", "Y", "Z"}
       /\ Sleep
    \/ /\ last.op = "sleep" /\ last.key = "X"
       /\ \E v \in Values : Put("Y", v, <<1>>, <<99, 99>>)
    \/ /\ last.op = "sleep" /\ last.key = "Y"
       /\ \E v \in Values : Put("Z", v, <<12>>, <<0, 0>>)
    \/ /\ last.op = "sleep" /\ last.key = "Z"
       /\ \E v \in Values : Put("W", v, <<12>>, <<0, 0>>)

SpecTest2 == InitTest2 /\ [][NextTest2]_vars

\* ------------------------------- evictions under the callbacks of the tests
\* the (t, loc) of the calls of the second and third test, and none
EvictArgs == {<<None, None>>, <<<<12>>, <<0, 0>>>>, <<<<1>>, <<99, 99>>>>}

InitArgs ==
    /\ capacity = TestCapacity
    /\ weights \in {Test1Weights, Test2Weights, FineWeights}
    /\ fns = DefaultFns
    /\ cache = <<>>
    /\ access_freq = EmptyMap
    /\ last_access = EmptyMap
    /\ now = 0
    /\ touches = [k \in AllKeys |-> 0]
    /\ last = [op |-> "init"]

\* set_context_functions is called right after the constructor, as in run_tests
NextArgs ==
    \/ /\ last.op = "init"
       /\ SetContextFunctions(<<"const">>, <<"fav12">>, <<"fav00">>)
    \/ /\ last.op # "init"
       /\ \E k \in Keys : Get(k, None, None)
    \/ /\ last.op # "init"
       /\ \E k \in Keys, a \in EvictArgs : Put(k, "v1", a[1], a[2])
    \/ /\ last.op # "init"
       /\ \E a \in EvictArgs : Evict(a[1], a[2])

SpecArgs == InitArgs /\ [][NextArgs]_vars

\* ------------------------- the second test with its first two puts swapped
\* X is put with the favoured t and loc, Y with the weak ones, in either
\* order; a third key is then put under any t and loc
NextOrder ==
    \/ /\ last.op = "init"
       /\ SetContextFunctions(<<"const">>, <<"fav12">>, <<"fav00">>)
    \/ /\ last.op = "set_context_functions"
       /\ \E v \in Values : Put("X", v, <<12>>, <<0, 0>>) \/ Put("Y", v, <<1>>, <<99, 99>>)
    \/ /\ last.op = "put" /\ last.key \in {"X", "Y"}
       /\ Sleep
    \/ /\ last.op = "sleep" /\ last.key = "Y" /\ Len(cache) = 1
       /\ \E v \in Values : Put("X", v, <<12>>, <<0, 0>>)
    \/ /\ last.op = "sleep" /\ last.key = "X" /\ Len(cache) = 1
       /\ \E v \in Values : Put("Y", v, <<1>>, <<99, 99>>)
    \/ /\ last.op = "sleep" /\ CacheKeys(cache) = {"X", "Y"}
       /\ \E v \in Values, a \in EvictArgs : Put("Z", v, a[1], a[2])

SpecOrder == InitTest2 /\ [][NextOrder]_vars

\* ------------------------------------------------- puts of new keys only
\* a cache with beta = 0 and room for two or three keys
InitFresh ==
    /\ capacity \in {TestCapacity, TestCapacity + 1} /\ weights = Test2Weights
    /\ fns = DefaultFns
    /\ cache = <<>>
    /\ access_freq = EmptyMap
    /\ last_access = EmptyMap
    /\ now = TestStart
    /\ touches = [k \in AllKeys |-> 0]
    /\ last = [op |-> "init"]

\* the (t, loc) the puts are called with: those of the tests, none, and t = 0
FreshArgs == EvictArgs \cup {<<<<0>>, <<0, 0>>>>}

\* the key put before key
PrevKey == [k \in {"Y", "Z", "W"} |-> CASE k = "Y" -> "X" [] k = "Z" -> "Y" [] k = "W" -> "Z"]

\* X, Y, Z, W are put in this order, with a sleep after each put and under any of
\* the (t, loc) above, with the callbacks of the tests or the default ones
NextFresh ==
    \/ /\ last.op = "init"
       /\ SetContextFunctions(<<"const">>, <<"fav12">>, <<"fav00">>)
    \/ /\ last.op \in {"init", "set_context_functions"}
       /\ \E v \in Values, a \in FreshArgs : Put("X", v, a[1], a[2])
    \/ /\ last.op = "put" /\ last.key \in {"X", "Y", "Z"}
       /\ Sleep
    \/ /\ last.op = "sleep"
       /\ \E k \in DOMAIN PrevKey, v \in Values, a \in FreshArgs :
             /\ PrevKey[k] = last.key
             /\ Put(k, v, a[1], a[2])

SpecFresh == InitFresh /\ [][NextFresh]_vars

\* ------------------------------------------- compute_score as a function
\* a cache holding the key A with any frequency and last access time, under
\* any of the weights and callbacks above
InitScore ==
    /\ capacity = TestCapacity
    /\ weights \in {DefaultWeights, Test1Weights, Test2Weights, FineWeights, ZeroAlphaWeights}
    /\ fns \in {DefaultFns, Test1Fns, Test2Fns}
    /\ cache = <<[key |-> "A", value |-> "v1"]>>
    /\ access_freq \in {[k \in {"A"} |-> n] : n \in 1..MaxFreq}
    /\ last_access \in {[k \in {"A"} |-> c] : c \in 0..MaxClock}
    /\ now \in 0..MaxClock
    /\ now >= last_access["A"]
    /\ touches = [k \in AllKeys |-> IF k = "A" THEN access_freq["A"] ELSE 0]
    /\ last = [op |-> "init"]

NextScore == \E t \in TArgs, loc \in LocArgs : ComputeScoreCall("A", t, loc)

SpecScore == InitScore /\ [][NextScore]_vars

\* ================================================================ claims
FreqAt(freqs, k) == IF k \in DOMAIN freqs THEN <<freqs[k]>> ELSE None
LastAccessAt(las, k) == IF k \in DOMAIN las THEN <<las[k]>> ELSE None
ValueAt(c, k) == IF k \in CacheKeys(c) THEN <<ValueOf(c, k)>> ELSE None

\* everything the cache holds about the keys other than key is the same in
\* the next state
OthersUnchanged(key) ==
    \A k \in Keys \ {key} :
        /\ ValueAt(cache', k) = ValueAt(cache, k)
        /\ FreqAt(access_freq', k) = FreqAt(access_freq, k)
        /\ LastAccessAt(last_access', k) = LastAccessAt(last_access, k)

\* C1: with capacity >= 1 the cache never holds more than capacity keys once
\* an operation has completed
C1_CapacityInvariant == capacity >= 1 => Len(cache) <= capacity

C1_Witness ==
    /\ capacity >= 1
    /\ last.op = "put" /\ last.evict /\ last.victim # NoKey
    /\ Len(cache) = capacity

\* C2: a put of an absent key into a full cache (capacity >= 1) removes exactly
\* one key that was present and inserts the new one; the size stays capacity
C2_EvictionNecessity ==
    [][(/\ last'.op = "put"
        /\ capacity >= 1
        /\ Len(cache) = capacity
        /\ last'.key \notin CacheKeys(cache))
       => /\ Len(cache') = capacity
          /\ Cardinality(CacheKeys(cache) \ CacheKeys(cache')) = 1
          /\ CacheKeys(cache') \ CacheKeys(cache) = {last'.key}
          /\ CacheKeys(cache) \ CacheKeys(cache') = {last'.victim}]_vars

C2_Witness ==
    /\ capacity = TestCapacity
    /\ last.op = "put" /\ last.victim # NoKey
    /\ last.victim \notin CacheKeys(cache)
    /\ last.key \in CacheKeys(cache)
    /\ Len(cache) = capacity

\* C3: a put on a present key does not call evict and leaves the key set as it
\* was, also in a full cache; nothing about the other keys changes
C3_UpdateDoesNotEvict ==
    [][(last'.op = "put" /\ last'.key \in CacheKeys(cache))
       => /\ ~last'.evict
          /\ last'.victim = NoKey
          /\ CacheKeys(cache') = CacheKeys(cache)
          /\ Len(cache') = Len(cache)
          /\ OthersUnchanged(last'.key)]_vars

C3_Witness ==
    /\ capacity >= 1 /\ Len(cache) = capacity
    /\ last.op = "put" /\ ~last.evict
    /\ touches[last.key] >= 2

\* the scores the scan of an evict(t, loc) computes with clock readings r
ScoresAt(r, t, loc) ==
    ScanScores(cache, access_freq, last_access, weights, fns, t, loc, r)

\* the keys whose score in that scan is within 1e-5 of the minimum score
NearMinKeys(r, t, loc) ==
    LET sc == ScoresAt(r, t, loc)
    IN {cache[i].key : i \in {i \in DOMAIN cache :
            \E m \in DOMAIN cache :
                /\ \A j \in DOMAIN cache : ~Less(sc[j], sc[m])
                /\ Near(sc[i], sc[m], weights.wden)}}

\* the key an evict(t, loc) called in this state removes when its scan reads
\* the clock as r
VictimOf(r, t, loc) ==
    KeyToEvict(cache, access_freq, last_access, weights, fns, t, loc, r)

\* C4: when exactly two keys score within 1e-5 of the minimum, evict removes
\* the one of the two that was accessed later, whatever the scan order and
\* whichever of the two scores lower
C4_TieBreak ==
    \A r \in ClockReads(Len(cache)), a \in ScanArgs(TRUE) :
        (/\ Cardinality(NearMinKeys(r, a[1], a[2])) = 2
         /\ \A k1, k2 \in NearMinKeys(r, a[1], a[2]) :
                k1 # k2 => last_access[k1] # last_access[k2])
        => /\ VictimOf(r, a[1], a[2]) \in NearMinKeys(r, a[1], a[2])
           /\ \A k \in NearMinKeys(r, a[1], a[2]) :
                  last_access[k] <= last_access[VictimOf(r, a[1], a[2])]

\* C5: the value map, the frequency map and the last-access map have the same
\* keys after any sequence of put, get and evict calls
C5_MapsAgree ==
    /\ DOMAIN access_freq = CacheKeys(cache)
    /\ DOMAIN last_access = CacheKeys(cache)

C5_Witness ==
    /\ last.op = "evict" /\ last.victim # NoKey
    /\ cache # <<>>
    /\ last.victim \notin DOMAIN access_freq

\* C6: get on an absent key returns None and changes no value, frequency or
\* last-access time, call after call
C6_GetMissChangesNothing ==
    [][(last'.op = "get" /\ last'.key \notin CacheKeys(cache))
       => /\ last'.ret = NoKey
          /\ cache' = cache
          /\ access_freq' = access_freq
          /\ last_access' = last_access]_vars

C6_Witness ==
    /\ last.op = "get" /\ last.ret = NoKey
    /\ last.key \notin CacheKeys(cache)
    /\ cache # <<>>

\* C7: get on a present key returns the stored value, adds 1 to the key's
\* frequency, sets its last access to the time read, and changes nothing else
C7_GetHit ==
    [][(last'.op = "get" /\ last'.key \in CacheKeys(cache))
       => /\ last'.ret = ValueOf(cache, last'.key)
          /\ access_freq'[last'.key] = access_freq[last'.key] + 1
          /\ last_access'[last'.key] = now'
          /\ now' >= now
          /\ cache' = cache
          /\ DOMAIN access_freq' = DOMAIN access_freq
          /\ DOMAIN last_access' = DOMAIN last_access
          /\ OthersUnchanged(last'.key)]_vars

C7_Witness ==
    /\ last.op = "get" /\ last.ret \in Values
    /\ Len(cache) = 2
    /\ access_freq[last.key] = MaxFreq
    /\ last_access[last.key] = now /\ now > 0

\* C8: the frequency of a present key is the number of puts and successful
\* gets of it since it was last absent (1 right after the put that inserts
\* it, so at least 1), and it does not decrease while the key stays present
C8_State ==
    \A k \in CacheKeys(cache) : access_freq[k] = touches[k] /\ access_freq[k] >= 1

C8_Step ==
    /\ \A k \in CacheKeys(cache) \cap CacheKeys(cache') : access_freq'[k] >= access_freq[k]
    /\ \A k \in CacheKeys(cache') \ CacheKeys(cache) : access_freq'[k] = 1

C8_Frequency == []C8_State /\ [][C8_Step]_vars

C8_Witness ==
    /\ last.op = "put" /\ last.victim # NoKey
    /\ access_freq[last.key] = 1
    /\ \E k \in CacheKeys(cache) : access_freq[k] >= 2

\* C9: compute_score hands time_fn the caller's t whenever t is not None, t = 0
\* included, and the current hour otherwise; it hands loc_fn the caller's loc
\* whenever loc is given and (0.0, 0.0) otherwise
C9_ArgumentsPassed ==
    (last.op = "compute_score" /\ last.raised = NoKey)
    => /\ last.t # None => last.time_arg = last.t[1]
       /\ last.t = None => last.time_arg = HourOf(now)
       /\ last.loc # None => last.loc_arg = last.loc
       /\ last.loc = None => last.loc_arg = <<0, 0>>

\* C10: compute_score called on an absent key fails with a key error and
\* leaves the three maps as they were
C10_AbsentKeyUnchanged ==
    [][(last'.op = "compute_score" /\ last'.key \notin CacheKeys(cache))
       => /\ last'.raised = "KeyError"
          /\ cache' = cache
          /\ access_freq' = access_freq
          /\ last_access' = last_access]_vars

\* C11: a direct evict on a non-empty cache removes exactly one key, from the
\* value, frequency and last-access maps together, and leaves the other keys
\* as they were; an evict on an empty cache changes nothing
C11_EvictOne ==
    [][last'.op = "evict"
       => IF cache = <<>>
          THEN /\ cache' = cache
               /\ access_freq' = access_freq
               /\ last_access' = last_access
          ELSE \E k \in CacheKeys(cache) :
                  /\ CacheKeys(cache') = CacheKeys(cache) \ {k}
                  /\ Len(cache') = Len(cache) - 1
                  /\ k \in DOMAIN access_freq /\ k \in DOMAIN last_access
                  /\ DOMAIN access_freq' = DOMAIN access_freq \ {k}
                  /\ DOMAIN last_access' = DOMAIN last_access \ {k}
                  /\ OthersUnchanged(k)]_vars

C11_Witness ==
    /\ capacity = TestCapacity
    /\ last.op = "evict" /\ last.victim # NoKey
    /\ Len(cache) = 1
    /\ last.victim \notin CacheKeys(cache)
    /\ last.victim \notin DOMAIN last_access

\* C12: with capacity 2, alpha = 2, beta = 3, gamma = delta = epsilon = 1 and
\* a clock that never goes backwards, after put(A), put(B), get(A), get(A),
\* put(C) the keys are exactly A and C, and B is the key put(C) evicted,
\* whatever the times of the five calls
C12_Test1Result ==
    (last.op = "put" /\ last.key = "C")
    => /\ CacheKeys(cache) = {"A", "C"}
       /\ last.evict /\ last.victim = "B"

C12_Witness ==
    /\ last.op = "put" /\ last.key = "C"
    /\ weights = Test1Weights /\ fns.time_fn = "fav8to10"
    /\ "A" \in DOMAIN access_freq /\ access_freq["A"] = 3
    /\ "B" \notin DOMAIN access_freq
    /\ last_access["A"] = now

\* C13: with capacity 2, alpha = 1, beta = 0, gamma = delta = epsilon = 1,
\* time_fn favouring 12 and loc_fn favouring (0, 0), and a clock that advances
\* between the calls: after put(X), put(Y), put(Z) the keys are exactly X and
\* Z, and after a further put(W) they are exactly X and W
C13_Test2Result ==
    /\ (last.op = "put" /\ last.key = "Z") => CacheKeys(cache) = {"X", "Z"}
    /\ (last.op = "put" /\ last.key = "W") => CacheKeys(cache) = {"X", "W"}

C13_Witness ==
    /\ last.op = "put" /\ last.key = "W" /\ last.victim = "Z"
    /\ weights = Test2Weights /\ fns.time_fn = "fav12" /\ fns.loc_fn = "fav00"
    /\ CacheKeys(cache) = {"X", "W"}
    /\ last_access["X"] < last_access["W"]

\* the score compute_score would have returned in its last call had the
\* frequency of the key been n, everything else being the same
ScoreWithFreq(n) ==
    ComputeScore(Store(access_freq, last.key, n), last_access, weights, fns,
                 last.key, last.t, last.loc, now, HourOf(now))

\* C14: for a present key and alpha > 0, with last access, current time,
\* callbacks, t and loc fixed, a larger frequency gives a strictly larger
\* score (in exact arithmetic)
C14_ScoreIncreasing ==
    (last.op = "compute_score" /\ last.raised = NoKey /\ weights.alpha > 0)
    => /\ last.ret = ScoreWithFreq(access_freq[last.key])
       /\ \A n1, n2 \in 0..(MaxFreq + 1) :
              n1 < n2 => Less(ScoreWithFreq(n1), ScoreWithFreq(n2))

C14_Witness ==
    /\ last.op = "compute_score" /\ last.raised = NoKey
    /\ weights = FineWeights /\ fns = Test2Fns
    /\ now > last_access[last.key]
    /\ Less(last.ret, ScoreWithFreq(access_freq[last.key] + 1))

\* C15: with beta = 0 and equal frequencies, when the put of a new key evicts,
\* the entry that was put with the lower time and location weights (Y) is the
\* one evicted and the entry put with the higher weights (X) is kept, in
\* whichever order the two were inserted
C15_ContextDecides ==
    (last.op = "put" /\ last.key = "Z")
    => /\ last.victim = "Y"
       /\ "X" \in CacheKeys(cache)

\* C16: in every cache state, for every scan order and every reading of the
\* clock, the key evict removes scores less than 1e-5 above the minimum of the
\* scores of the keys present; a key 1e-5 or more above it is never removed
C16_VictimNearMin ==
    cache # <<>>
    => \A r \in ClockReads(Len(cache)), a \in ScanArgs(TRUE) :
           VictimOf(r, a[1], a[2]) \in NearMinKeys(r, a[1], a[2])

C16_Witness ==
    /\ Len(cache) = 2
    /\ last.op = "put" /\ last.evict /\ last.victim # NoKey
    /\ \E r \in ClockReads(Len(cache)) :
           /\ NearMinKeys(r, None, None) = {cache[1].key}
           /\ VictimOf(r, None, None) = cache[1].key
           /\ last_access[cache[1].key] < last_access[cache[2].key]

\* C17: right after put(k, v) the key k is present with the value v, also when
\* k was present before, and the key the put evicted is never k itself
C17_PutState ==
    last.op = "put"
    => /\ last.key \in CacheKeys(cache)
       /\ ValueOf(cache, last.key) = last.value
       /\ last.victim # last.key

\* a get(k) that follows put(k, v) returns v
C17_GetStep ==
    (last.op = "put" /\ last'.op = "get" /\ last'.key = last.key)
    => last'.ret = last.value

C17_PutThenGet == []C17_PutState /\ [][C17_GetStep]_vars

C17_Witness ==
    /\ capacity >= 1 /\ Len(cache) = capacity
    /\ last.op = "put" /\ last.value = "v2" /\ ~last.evict
    /\ touches[last.key] >= 2
    /\ ValueOf(cache, last.key) = "v2"

\* the readings of a scan during which the clock stands at c
SameClock(c) == [i \in 1..Len(cache) |-> c]

C19_EvictsPreceding ==
    (last.op = "put" /\ last.evict)
    => /\ last.victim = PrevKey[last.key]
       /\ "X" \in CacheKeys(cache)
       /\ capacity > TestCapacity => "Y" \in CacheKeys(cache)

\* the readings of the scan of a put that starts after the clock has advanced
\* and during which the hour of day stays the same
LaterReadsInOneHour ==
    {r \in ClockReads(Len(cache)) :
        /\ r[1] > now
        /\ \A i, j \in DOMAIN r : HourOf(r[i]) = HourOf(r[j])}

\* C19 amended: the same, provided the hour of day does not change while the
\* put scans: in every state of such a run with the cache at capacity, the
\* scan of the next put selects the key of the put before it
C19_EvictsPrecedingInOneHour ==
    (last.op = "put" /\ Len(cache) = capacity)
    => \A r \in LaterReadsInOneHour, a \in FreshArgs :
           VictimOf(r, a[1], a[2]) = last.key

C19_Witness ==
    /\ fns = Test2Fns
    /\ last.op = "put" /\ last.evict /\ last.victim = PrevKey[last.key]
    /\ Len(cache) = capacity
    /\ \E r \in LaterReadsInOneHour :
           /\ HourOf(r[1]) # HourOf(now)
           /\ VictimOf(r, None, None) = last.key

====
